---- MODULE Spec2Model ----
(***************************************************************************)
(* A model of the indexing core of substrate-archive:                      *)
(*   - the Aggregator actor      (archive/src/actors/workers/aggregator.rs)*)
(*   - the database inserts      (archive/src/database.rs)                 *)
(*   - the finalized-head source (archive/src/actors/generators/network.rs)*)
(*   - the deferred-storage worker (src/actors/generators/defer_storage.rs)*)
(***************************************************************************)
EXTENDS Integers, Sequences, FiniteSets, TLC

\* ---------------------------------------------------------------- bounds
\* messages (Block, BatchBlock, BlockChanges) the aggregator is sent
MaxMsgs == 2
\* firings of the interval timer
MaxTicks == 3
\* longest BatchBlock a producer sends
MaxBatch == 2

\* ------------------------------------------------------------- helpers
Range(s) == {s[i] : i \in 1..Len(s)}

Max2(a, b) == IF a >= b THEN a ELSE b

\* ------------------------------------------------------------- state
VARIABLES
    \* Aggregator fields and the channels it holds
    block_queue,        \* senders.block_queue / recvs.block_recv (flume::unbounded)
    storage_queue,      \* senders.storage_queue / recvs.storage_recv
    recvs,              \* Option<Receivers>: "Some" | "None"
    exec,               \* what was sent on the compute-pool channel (exec)
    meta_addr,          \* what was delivered to the Metadata actor's address
    db_addr,            \* what was delivered to the Database actor's address
    exec_open,          \* the receiver of exec has not been dropped
    meta_open,          \* the Metadata actor is alive
    db_open,            \* the Database actor is alive
    last_count_was_0,
    agg_state,          \* "created" | "running" | "stopped"
    timer,              \* the notify_interval task: "none" | "idle" | "storage_drained" | "ended"
    tick_storage,       \* storage_recv.drain().map(Storage::from), taken first
    mailbox,            \* BlockStorageCombo messages sent to the actor, not yet handled
    log,                \* the log::info! lines of the Combo handler
    \* history of the run
    next_id,            \* next fresh item identity
    msgs,               \* messages handled so far
    ticks,              \* timer firings so far
    combos,             \* every Combo the timer built
    handled,            \* sizes <<b, s>> of every Combo handled
    discarded,          \* ids of drained items dropped without being delivered
    accepted,           \* ids of the items pushed on a queue
    last_msg,           \* the Block, BatchBlock or BlockChanges message handled last
    snap,               \* contents of both queues when the running drain began
    arrived             \* an item was enqueued while the running drain was under way

agg_vars == <<block_queue, storage_queue, recvs, exec, meta_addr, db_addr,
              exec_open, meta_open, db_open, last_count_was_0, agg_state,
              timer, tick_storage, mailbox, log, next_id, msgs, ticks,
              combos, handled, discarded, accepted, last_msg, snap, arrived>>

VARIABLES
    \* the PostgreSQL tables
    db,                 \* [blocks, metadata, storage]
    \* history of the inserts
    db_ops,             \* inserts executed so far
    db_last             \* the item inserted last, whether it was a replay, its DbReturn

db_vars == <<db, db_ops, db_last>>

VARIABLES
    \* the deferred-storage worker
    defer_state,        \* "none" | "probe" (about to call entry) | "sleep" | "done"
    defer_init,         \* the storage argument the exec closure captured
    defer_storage,      \* the working set: the closure's local storage
    \* history of the worker
    defer_sent,         \* the records (by position in defer_init) sent to the sink
    defer_waited,       \* some probe left a record waiting for its block
    defer_probe         \* the call of entry in this iteration of the loop: its
                        \* outcome and the batch it sent

defer_vars == <<defer_state, defer_init, defer_storage, defer_sent, defer_waited,
               defer_probe>>

VARIABLES
    \* the finalized-head source (network generator)
    net_pc,             \* "connecting" | "poll" | "await_head" | "lookup" | "stopped"
    net_sub,            \* the RPC subscription: "none" | "open" | "closed"
    net_inbox,          \* messages delivered to the actor and not yet received
    net_heads,          \* heads the node has notified and next() has not returned
    net_head,           \* the head next() returned (0: none)
    net_backend,        \* block numbers whose body the block store holds
    net_meta_open,      \* the metadata workers can still be told a block
    \* history of the source
    net_told,           \* the blocks told to the metadata workers, in order
    net_warned,         \* a warning was logged (missing body or unknown message)
    net_sent_heads,     \* heads the node has notified so far
    net_sent_unknown,   \* unknown messages delivered so far
    net_handed,         \* the heads whose block was passed to tell_next, in order
    net_log,            \* the warnings logged, in order: "missing" | "unknown"
    net_exit,           \* what entry returned: "none" | "ok" | "err"
    bastion_stopped,    \* Bastion::stop() was called: the whole system shuts down
    net_shut_at         \* where the source was when the Shutdown broadcast was delivered

net_vars == <<net_pc, net_sub, net_inbox, net_heads, net_head, net_backend,
              net_meta_open, net_told, net_warned, net_sent_heads, net_sent_unknown,
              net_handed, net_log, net_exit, bastion_stopped, net_shut_at>>

VARIABLES
    \* the metadata worker pool and the channel to the database sink
    meta_pc,            \* per worker: "idle" | "check" | "fetch" | "insert" | "forward"
    meta_cur,           \* per worker: the block being processed
    meta_cache,         \* per worker: the spec versions it has seen
    sink_blocks,        \* blocks forwarded to the sink and not yet inserted
    meta_msgs           \* blocks dispatched to the pool so far

meta_vars == <<meta_pc, meta_cur, meta_cache, sink_blocks, meta_msgs>>

VARIABLES
    \* one batch insert: the Batch builder and the loop over the rows
    batch_pc,           \* "none" | "building" | "executed"
    batch_cap,          \* the per-statement cap on bound parameters
    batch_args,         \* bound parameters per row: 5 (storage) or 8 (blocks)
    batch_rows,         \* the number of rows of the input
    batch_done,         \* rows the loop has gone through
    batch_chunks,       \* the builder's statements under construction
    batch_emitted       \* the statements execute has sent

batch_vars == <<batch_pc, batch_cap, batch_args, batch_rows, batch_done,
                batch_chunks, batch_emitted>>

vars == <<agg_vars, db_vars, defer_vars, net_vars, meta_vars, batch_vars>>

non_agg_vars == <<db_vars, defer_vars, net_vars, meta_vars, batch_vars>>
non_db_vars == <<agg_vars, defer_vars, net_vars, meta_vars, batch_vars>>
non_net_vars == <<agg_vars, db_vars, defer_vars, meta_vars, batch_vars>>
non_meta_db_vars == <<agg_vars, defer_vars, net_vars, batch_vars>>
non_defer_db_vars == <<agg_vars, net_vars, meta_vars, batch_vars>>
non_batch_vars == <<agg_vars, db_vars, defer_vars, net_vars, meta_vars>>

\* ------------------------------------------------- aggregator: queues
\* queues(): two fresh unbounded channels
queues == [block_queue |-> <<>>, storage_queue |-> <<>>]

\* Aggregator::new: the state after construction
InitAgg ==
    /\ block_queue = queues.block_queue
    /\ storage_queue = queues.storage_queue
    /\ recvs = "Some"
    /\ exec = <<>>
    /\ meta_addr = <<>>
    /\ db_addr = <<>>
    /\ exec_open = TRUE
    /\ meta_open = TRUE
    /\ db_open = TRUE
    /\ last_count_was_0 = FALSE
    /\ agg_state = "created"
    /\ timer = "none"
    /\ tick_storage = <<>>
    /\ mailbox = <<>>
    /\ log = <<>>
    /\ next_id = 1
    /\ msgs = 0
    /\ ticks = 0
    /\ combos = <<>>
    /\ handled = <<>>
    /\ discarded = {}
    /\ accepted = {}
    /\ last_msg = [kind |-> "None"]
    /\ snap = [blocks |-> <<>>, storage |-> <<>>]
    /\ arrived = FALSE

\* push_back with a BatchBlock arm that stops after its first send
push_back_first_only(bq, sq, t) ==
    CASE t.kind = "Block" -> [block_queue |-> Append(bq, t.b), storage_queue |-> sq]
      [] t.kind = "Storage" -> [block_queue |-> bq, storage_queue |-> Append(sq, t.s)]
      [] t.kind = "BatchBlock" ->
            [block_queue |-> IF t.v = <<>> THEN bq ELSE Append(bq, t.v[1]),
             storage_queue |-> sq]

\* Senders::push_back: the queue contents after pushing t
push_back(bq, sq, t) ==
    CASE t.kind = "Block" -> [block_queue |-> Append(bq, t.b), storage_queue |-> sq]
      [] t.kind = "Storage" -> [block_queue |-> bq, storage_queue |-> Append(sq, t.s)]
      [] t.kind = "BatchBlock" -> [block_queue |-> bq \o t.v, storage_queue |-> sq]

\* Storage::from(BlockChanges)
StorageFrom(c) == [id |-> c.id, kind |-> "Storage"]

\* a plain zip in place of zip_longest: it ends with the shorter side
zip_shortest(l, r) ==
    [i \in 1..(IF Len(l) <= Len(r) THEN Len(l) ELSE Len(r)) |->
        [tag |-> "Both", s |-> l[i], b |-> r[i]]]

\* itertools zip_longest: pairs while both last, then the rest of the longer
zip_longest(l, r) ==
    [i \in 1..Max2(Len(l), Len(r)) |->
        IF i <= Len(l) /\ i <= Len(r) THEN [tag |-> "Both", s |-> l[i], b |-> r[i]]
        ELSE IF i <= Len(l) THEN [tag |-> "Left", s |-> l[i]]
        ELSE [tag |-> "Right", b |-> r[i]]]

\* the loop of from_iter pushing each item to the front of its vector
RECURSIVE from_iter_loop_push_front(_, _, _)
from_iter_loop_push_front(iter, storage, blocks) ==
    IF iter = <<>> THEN [blocks |-> blocks, storage |-> storage]
    ELSE LET i == Head(iter) IN
         CASE i.tag = "Left" ->
                from_iter_loop_push_front(Tail(iter), <<i.s>> \o storage, blocks)
           [] i.tag = "Right" ->
                from_iter_loop_push_front(Tail(iter), storage, <<i.b>> \o blocks)
           [] i.tag = "Both" ->
                from_iter_loop_push_front(Tail(iter), <<i.s>> \o storage, <<i.b>> \o blocks)

RECURSIVE from_iter_loop(_, _, _)
from_iter_loop(iter, storage, blocks) ==
    IF iter = <<>> THEN [blocks |-> blocks, storage |-> storage]
    ELSE LET i == Head(iter) IN
         CASE i.tag = "Left" -> from_iter_loop(Tail(iter), Append(storage, i.s), blocks)
           [] i.tag = "Right" -> from_iter_loop(Tail(iter), storage, Append(blocks, i.b))
           [] i.tag = "Both" -> from_iter_loop(Tail(iter), Append(storage, i.s), Append(blocks, i.b))

\* BlockStorageCombo::from_iter
from_iter(iter) == from_iter_loop(iter, <<>>, <<>>)

\* .map(Storage::from) over the drained changes
MapStorageFrom(s) == [i \in 1..Len(s) |-> StorageFrom(s[i])]

\* a drain that takes only the first waiting message
drain_first(q) ==
    IF q = <<>> THEN [items |-> <<>>, rest |-> <<>>]
    ELSE [items |-> <<Head(q)>>, rest |-> Tail(q)]

\* a drain that reads the waiting messages and leaves them in the channel
drain_peek(q) == [items |-> q, rest |-> q]

\* flume Receiver::drain: takes every message waiting in the channel
drain(q) == [items |-> q, rest |-> <<>>]

\* Aggregator::started
Started ==
    /\ UNCHANGED non_agg_vars
    /\ agg_state = "created"
    /\ LET fresh == recvs = "None" IN
       /\ block_queue' = IF fresh THEN queues.block_queue ELSE block_queue
       /\ storage_queue' = IF fresh THEN queues.storage_queue ELSE storage_queue
    /\ recvs' = "None"
    /\ timer' = "idle"
    /\ agg_state' = "running"
    /\ UNCHANGED <<exec, meta_addr, db_addr, exec_open, meta_open, db_open,
                   last_count_was_0, tick_storage, mailbox, log, next_id, msgs,
                   ticks, combos, handled, discarded, accepted, last_msg, snap, arrived>>

\* SyncHandler<BlockChanges>::handle
HandleBlockChanges ==
    /\ UNCHANGED non_agg_vars
    /\ agg_state = "running"
    /\ msgs < MaxMsgs
    /\ LET changes == [id |-> next_id, kind |-> "BlockChanges"]
           q == push_back(block_queue, storage_queue, [kind |-> "Storage", s |-> changes])
       IN /\ block_queue' = q.block_queue
          /\ storage_queue' = q.storage_queue
          /\ last_msg' = [kind |-> "Storage", s |-> changes]
    /\ accepted' = accepted \cup {next_id}
    /\ next_id' = next_id + 1
    /\ msgs' = msgs + 1
    /\ arrived' = (arrived \/ timer = "storage_drained")
    /\ UNCHANGED <<recvs, exec, meta_addr, db_addr, exec_open, meta_open, db_open,
                   last_count_was_0, agg_state, timer, tick_storage, mailbox, log,
                   ticks, combos, handled, discarded, snap>>

\* SyncHandler<Block>::handle
HandleBlock ==
    /\ UNCHANGED non_agg_vars
    /\ agg_state = "running"
    /\ msgs < MaxMsgs
    /\ LET block == [id |-> next_id, kind |-> "Block"]
           q == push_back(block_queue, storage_queue, [kind |-> "Block", b |-> block])
       IN /\ last_msg' = [kind |-> "Block", b |-> block]
          /\ IF exec_open
             THEN /\ exec' = Append(exec, [kind |-> "Single", blocks |-> <<block>>])
                  /\ block_queue' = q.block_queue
                  /\ storage_queue' = q.storage_queue
                  /\ accepted' = accepted \cup {next_id}
                  /\ arrived' = (arrived \/ timer = "storage_drained")
             ELSE \* exec.send(..)? returns the error before push_back
                  UNCHANGED <<exec, block_queue, storage_queue, accepted, arrived>>
    /\ next_id' = next_id + 1
    /\ msgs' = msgs + 1
    /\ UNCHANGED <<recvs, meta_addr, db_addr, exec_open, meta_open, db_open,
                   last_count_was_0, agg_state, timer, tick_storage, mailbox, log,
                   ticks, combos, handled, discarded, snap>>

\* SyncHandler<BatchBlock>::handle
HandleBatchBlock ==
    /\ UNCHANGED non_agg_vars
    /\ agg_state = "running"
    /\ msgs < MaxMsgs
    /\ \E len \in 0..MaxBatch :
        LET inner == [i \in 1..len |-> [id |-> next_id + i - 1, kind |-> "Block"]]
            q == push_back(block_queue, storage_queue, [kind |-> "BatchBlock", v |-> inner])
        IN /\ next_id' = next_id + len
           /\ last_msg' = [kind |-> "BatchBlock", v |-> inner]
           /\ IF exec_open
              THEN /\ exec' = Append(exec, [kind |-> "Batch", blocks |-> inner])
                   /\ block_queue' = q.block_queue
                   /\ storage_queue' = q.storage_queue
                   /\ accepted' = accepted \cup {inner[i].id : i \in 1..len}
                   /\ arrived' = (arrived \/ (timer = "storage_drained" /\ len > 0))
              ELSE \* exec.send(..)? returns the error before push_back
                   UNCHANGED <<exec, block_queue, storage_queue, accepted, arrived>>
    /\ msgs' = msgs + 1
    /\ UNCHANGED <<recvs, meta_addr, db_addr, exec_open, meta_open, db_open,
                   last_count_was_0, agg_state, timer, tick_storage, mailbox, log,
                   ticks, combos, handled, discarded, snap>>

\* The interval closure, first half: this.storage_recv.drain().map(Storage::from)
TickDrainStorage ==
    /\ UNCHANGED non_agg_vars
    /\ timer = "idle"
    /\ ticks < MaxTicks
    /\ ticks' = ticks + 1
    /\ tick_storage' = MapStorageFrom(drain(storage_queue).items)
    /\ storage_queue' = drain(storage_queue).rest
    /\ snap' = [blocks |-> block_queue, storage |-> storage_queue]
    /\ arrived' = FALSE
    /\ timer' = "storage_drained"
    /\ UNCHANGED <<block_queue, recvs, exec, meta_addr, db_addr, exec_open, meta_open,
                   db_open, last_count_was_0, agg_state, mailbox, log, next_id, msgs,
                   combos, handled, discarded, accepted, last_msg>>

ItemIds(combo) == {combo.blocks[i].id : i \in 1..Len(combo.blocks)}
                  \cup {combo.storage[i].id : i \in 1..Len(combo.storage)}

\* The interval closure, second half: .zip_longest(this.block_recv.drain()).collect(),
\* and the message is sent to the actor
TickDrainBlocks ==
    /\ UNCHANGED non_agg_vars
    /\ timer = "storage_drained"
    /\ LET combo == from_iter(zip_longest(tick_storage, drain(block_queue).items)) IN
       /\ combos' = Append(combos, combo)
       /\ IF agg_state = "running"
          THEN /\ mailbox' = Append(mailbox, combo)
               /\ timer' = "idle"
               /\ UNCHANGED discarded
          ELSE \* the actor is gone: the message is dropped and the interval ends
               /\ discarded' = discarded \cup ItemIds(combo)
               /\ timer' = "ended"
               /\ UNCHANGED mailbox
    /\ block_queue' = drain(block_queue).rest
    /\ tick_storage' = <<>>
    /\ UNCHANGED <<storage_queue, recvs, exec, meta_addr, db_addr, exec_open, meta_open,
                   db_open, last_count_was_0, agg_state, log, next_id, msgs, ticks,
                   handled, accepted, last_msg, snap, arrived>>

\* the closure r without the (0, 0) arm: an empty Combo is sent on like a full one
ComboDispatch_empty_sent(blocks, storage, latch, mopen, dopen) ==
    IF ~dopen
    THEN [to_meta |-> <<>>, to_db |-> <<>>, latch |-> latch, log |-> <<>>, ok |-> FALSE]
    ELSE IF ~mopen
    THEN [to_meta |-> <<>>, to_db |-> <<storage>>, latch |-> latch, log |-> <<>>,
          ok |-> FALSE]
    ELSE [to_meta |-> <<blocks>>, to_db |-> <<storage>>, latch |-> FALSE,
          log |-> <<"both">>, ok |-> TRUE]

\* the closure r with the (b, 0) arm sending the blocks to db_addr
ComboDispatch_blocks_to_db(blocks, storage, latch, mopen, dopen) ==
    LET b == Len(blocks)
        s == Len(storage)
        err(to_db) == [to_meta |-> <<>>, to_db |-> to_db, latch |-> latch,
                       log |-> <<>>, ok |-> FALSE]
    IN CASE b = 0 /\ s = 0 ->
              [to_meta |-> <<>>, to_db |-> <<>>, latch |-> TRUE,
               log |-> IF ~latch THEN <<"waiting">> ELSE <<>>, ok |-> TRUE]
         [] b > 0 /\ s = 0 ->
              IF ~dopen THEN err(<<>>)
              ELSE [to_meta |-> <<>>, to_db |-> <<blocks>>, latch |-> FALSE,
                    log |-> <<"blocks">>, ok |-> TRUE]
         [] b = 0 /\ s > 0 ->
              IF ~dopen THEN err(<<>>)
              ELSE [to_meta |-> <<>>, to_db |-> <<storage>>, latch |-> FALSE,
                    log |-> <<"storage">>, ok |-> TRUE]
         [] b > 0 /\ s > 0 ->
              IF ~dopen THEN err(<<>>)
              ELSE IF ~mopen THEN err(<<storage>>)
              ELSE [to_meta |-> <<blocks>>, to_db |-> <<storage>>, latch |-> FALSE,
                    log |-> <<"both">>, ok |-> TRUE]

\* the closure r with the (0, s) arm leaving last_count_was_0 as it was
ComboDispatch_no_reset(blocks, storage, latch, mopen, dopen) ==
    LET b == Len(blocks)
        s == Len(storage)
        err(to_db) == [to_meta |-> <<>>, to_db |-> to_db, latch |-> latch,
                       log |-> <<>>, ok |-> FALSE]
    IN CASE b = 0 /\ s = 0 ->
              [to_meta |-> <<>>, to_db |-> <<>>, latch |-> TRUE,
               log |-> IF ~latch THEN <<"waiting">> ELSE <<>>, ok |-> TRUE]
         [] b > 0 /\ s = 0 ->
              IF ~mopen THEN err(<<>>)
              ELSE [to_meta |-> <<blocks>>, to_db |-> <<>>, latch |-> FALSE,
                    log |-> <<"blocks">>, ok |-> TRUE]
         [] b = 0 /\ s > 0 ->
              IF ~dopen THEN err(<<>>)
              ELSE [to_meta |-> <<>>, to_db |-> <<storage>>, latch |-> latch,
                    log |-> <<"storage">>, ok |-> TRUE]
         [] b > 0 /\ s > 0 ->
              IF ~dopen THEN err(<<>>)
              ELSE IF ~mopen THEN err(<<storage>>)
              ELSE [to_meta |-> <<blocks>>, to_db |-> <<storage>>, latch |-> FALSE,
                    log |-> <<"both">>, ok |-> TRUE]

\* The closure r of SyncHandler<BlockStorageCombo>::handle: what it sends, the
\* latch it leaves, the line it logs and whether it returned Ok
ComboDispatch(blocks, storage, latch, mopen, dopen) ==
    LET b == Len(blocks)
        s == Len(storage)
        err(to_db) == [to_meta |-> <<>>, to_db |-> to_db, latch |-> latch,
                       log |-> <<>>, ok |-> FALSE]
    IN CASE b = 0 /\ s = 0 ->
              [to_meta |-> <<>>, to_db |-> <<>>, latch |-> TRUE,
               log |-> IF ~latch THEN <<"waiting">> ELSE <<>>, ok |-> TRUE]
         [] b > 0 /\ s = 0 ->
              IF ~mopen THEN err(<<>>)
              ELSE [to_meta |-> <<blocks>>, to_db |-> <<>>, latch |-> FALSE,
                    log |-> <<"blocks">>, ok |-> TRUE]
         [] b = 0 /\ s > 0 ->
              IF ~dopen THEN err(<<>>)
              ELSE [to_meta |-> <<>>, to_db |-> <<storage>>, latch |-> FALSE,
                    log |-> <<"storage">>, ok |-> TRUE]
         [] b > 0 /\ s > 0 ->
              IF ~dopen THEN err(<<>>)
              ELSE IF ~mopen THEN err(<<storage>>)
              ELSE [to_meta |-> <<blocks>>, to_db |-> <<storage>>, latch |-> FALSE,
                    log |-> <<"both">>, ok |-> TRUE]

SeqIds(batches) == {x.id : x \in UNION {Range(batches[i]) : i \in 1..Len(batches)}}

\* SyncHandler<BlockStorageCombo>::handle
HandleCombo ==
    /\ UNCHANGED non_agg_vars
    /\ agg_state = "running"
    /\ mailbox # <<>>
    /\ LET data == Head(mailbox)
           r == ComboDispatch(data.blocks, data.storage, last_count_was_0,
                              meta_open, db_open)
       IN /\ meta_addr' = meta_addr \o r.to_meta
          /\ db_addr' = db_addr \o r.to_db
          /\ last_count_was_0' = r.latch
          /\ log' = log \o r.log
          /\ agg_state' = IF r.ok THEN "running" ELSE "stopped"
          /\ discarded' = discarded \cup
                (ItemIds(data) \ (SeqIds(r.to_meta) \cup SeqIds(r.to_db)))
          /\ handled' = Append(handled, <<Len(data.blocks), Len(data.storage)>>)
    /\ mailbox' = Tail(mailbox)
    /\ UNCHANGED <<block_queue, storage_queue, recvs, exec, exec_open, meta_open,
                   db_open, timer, tick_storage, next_id, msgs, ticks, combos,
                   accepted, last_msg, snap, arrived>>

\* The environment drops the receiving end of the compute-pool channel
DropExec ==
    /\ UNCHANGED non_agg_vars
    /\ exec_open
    /\ exec_open' = FALSE
    /\ UNCHANGED <<block_queue, storage_queue, recvs, exec, meta_addr, db_addr,
                   meta_open, db_open, last_count_was_0, agg_state, timer,
                   tick_storage, mailbox, log, next_id, msgs, ticks, combos,
                   handled, discarded, accepted, last_msg, snap, arrived>>

\* The Metadata actor stops
DropMeta ==
    /\ UNCHANGED non_agg_vars
    /\ meta_open
    /\ meta_open' = FALSE
    /\ UNCHANGED <<block_queue, storage_queue, recvs, exec, meta_addr, db_addr,
                   exec_open, db_open, last_count_was_0, agg_state, timer,
                   tick_storage, mailbox, log, next_id, msgs, ticks, combos,
                   handled, discarded, accepted, last_msg, snap, arrived>>

\* The Database actor stops
DropDb ==
    /\ UNCHANGED non_agg_vars
    /\ db_open
    /\ db_open' = FALSE
    /\ UNCHANGED <<block_queue, storage_queue, recvs, exec, meta_addr, db_addr,
                   exec_open, meta_open, last_count_was_0, agg_state, timer,
                   tick_storage, mailbox, log, next_id, msgs, ticks, combos,
                   handled, discarded, accepted, last_msg, snap, arrived>>

\* the tables before any insert
InitDb ==
    /\ db = [blocks |-> {}, metadata |-> {}, storage |-> <<>>]
    /\ db_ops = 0
    /\ db_last = [kind |-> "None"]

\* no deferred-storage worker has been started
InitDefer ==
    /\ defer_state = "none"
    /\ defer_init = <<>>
    /\ defer_storage = <<>>
    /\ defer_sent = {}
    /\ defer_waited = FALSE
    /\ defer_probe = [outcome |-> "none", ready |-> <<>>]

\* the network generator's exec closure has started and entry is connecting
InitNet ==
    /\ net_pc = "connecting"
    /\ net_sub = "none"
    /\ net_inbox = <<>>
    /\ net_heads = <<>>
    /\ net_head = 0
    /\ net_backend = {}
    /\ net_meta_open = TRUE
    /\ net_told = <<>>
    /\ net_warned = FALSE
    /\ net_sent_heads = 0
    /\ net_sent_unknown = 0
    /\ net_handed = <<>>
    /\ net_log = <<>>
    /\ net_exit = "none"
    /\ bastion_stopped = FALSE
    /\ net_shut_at = "none"

\* the workers of the metadata pool: a pool with more than one worker
MetaWorkers == {"w1", "w2"}

\* every metadata worker is idle with an empty cache
InitMeta ==
    /\ meta_pc = [w \in MetaWorkers |-> "idle"]
    /\ meta_cur = [w \in MetaWorkers |-> [num |-> 0, spec |-> 0]]
    /\ meta_cache = [w \in MetaWorkers |-> {}]
    /\ sink_blocks = <<>>
    /\ meta_msgs = 0

\* no batch insert has been started
InitBatch ==
    /\ batch_pc = "none"
    /\ batch_cap = 0
    /\ batch_args = 0
    /\ batch_rows = 0
    /\ batch_done = 0
    /\ batch_chunks = <<>>
    /\ batch_emitted = <<>>

Init == InitAgg /\ InitDb /\ InitDefer /\ InitNet /\ InitMeta /\ InitBatch

Next ==
    \/ Started
    \/ HandleBlockChanges
    \/ HandleBlock
    \/ HandleBatchBlock
    \/ TickDrainStorage
    \/ TickDrainBlocks
    \/ HandleCombo
    \/ DropExec
    \/ DropMeta
    \/ DropDb

Spec == Init /\ [][Next]_vars
\* ------------------------------------------------ aggregator: properties
Last(s) == s[Len(s)]

\* the messages appended to a channel by the step
Sent(before, after) == SubSeq(after, Len(before) + 1, Len(after))

\* C1: a drain is complete. When a tick's drain ends and nothing was enqueued
\* while it ran, the Combo it built holds exactly the K items that were on
\* block_queue and storage_queue when the drain began, and both queues are empty.
C1_DrainComplete ==
    [][(timer = "storage_drained" /\ timer' # "storage_drained" /\ ~arrived) =>
          LET c == Last(combos') IN
          /\ Len(combos') = Len(combos) + 1
          /\ c.blocks = snap.blocks
          /\ c.storage = MapStorageFrom(snap.storage)
          /\ Len(c.blocks) + Len(c.storage) = Len(snap.blocks) + Len(snap.storage)
          /\ block_queue' = <<>>
          /\ storage_queue' = <<>>]_vars

\* a tick has drained a block and a storage change enqueued before it, with no
\* arrival during the drain
C1_Witness ==
    /\ timer = "idle"
    /\ ticks > 0
    /\ ~arrived
    /\ Len(snap.blocks) >= 1
    /\ Len(snap.storage) >= 1
    /\ Len(Last(combos).blocks) + Len(Last(combos).storage)
         = Len(snap.blocks) + Len(snap.storage)

\* what the step that handles the Combo at the head of the mailbox sent
NewMeta == Sent(meta_addr, meta_addr')
NewDb == Sent(db_addr, db_addr')
ComboHandled == handled' # handled

OnlyStorage(batches) ==
    \A i \in 1..Len(batches) : \A x \in Range(batches[i]) : x.kind = "Storage"

\* C2 as claimed: the Combo handler routes by the sizes (B, S) alone: (B>0, 0)
\* one BatchBlock to Metadata and nothing to the Database; (0, S>0) one storage
\* batch to the Database and nothing to Metadata; (B>0, S>0) both; (0, 0)
\* nothing; and blocks are never sent to the Database.
C2_RoutingBySizesOnly ==
    [][ComboHandled =>
          LET d == Head(mailbox)
              B == Len(d.blocks)
              S == Len(d.storage)
          IN /\ (B > 0 /\ S = 0) => (NewMeta = <<d.blocks>> /\ NewDb = <<>>)
             /\ (B = 0 /\ S > 0) => (NewMeta = <<>> /\ NewDb = <<d.storage>>)
             /\ (B > 0 /\ S > 0) => (NewMeta = <<d.blocks>> /\ NewDb = <<d.storage>>)
             /\ (B = 0 /\ S = 0) => (NewMeta = <<>> /\ NewDb = <<>>)
             /\ OnlyStorage(db_addr')]_vars

\* C2 amended: the routing by sizes holds for the sends that succeed. A send to
\* a receiver that has stopped delivers nothing, ends the handler and stops the
\* aggregator; with (B>0, S>0) the storage batch is sent first, and the blocks
\* are sent only if that send succeeded. Blocks are never sent to the Database.
C2_Routing ==
    [][ComboHandled =>
          LET d == Head(mailbox)
              B == Len(d.blocks)
              S == Len(d.storage)
              toMeta == IF meta_open THEN <<d.blocks>> ELSE <<>>
              toDb == IF db_open THEN <<d.storage>> ELSE <<>>
          IN /\ (B > 0 /\ S = 0) =>
                    /\ NewMeta = toMeta /\ NewDb = <<>>
                    /\ agg_state' = IF meta_open THEN "running" ELSE "stopped"
             /\ (B = 0 /\ S > 0) =>
                    /\ NewMeta = <<>> /\ NewDb = toDb
                    /\ agg_state' = IF db_open THEN "running" ELSE "stopped"
             /\ (B > 0 /\ S > 0) =>
                    /\ NewDb = toDb
                    /\ NewMeta = IF db_open THEN toMeta ELSE <<>>
                    /\ agg_state' = IF db_open /\ meta_open THEN "running" ELSE "stopped"
             /\ (B = 0 /\ S = 0) =>
                    /\ NewMeta = <<>> /\ NewDb = <<>>
                    /\ agg_state' = "running"
             /\ OnlyStorage(db_addr')]_vars

\* a Combo with blocks and storage was handled and both parts were delivered
C2_Witness ==
    /\ \E i \in 1..Len(handled) : handled[i][1] > 0 /\ handled[i][2] > 0
    /\ meta_addr # <<>>
    /\ db_addr # <<>>
    /\ agg_state = "running"

IsEmptyCombo(h) == h = <<0, 0>>

\* the maximal runs of consecutive empty Combos among those handled
EmptyRuns(h) ==
    Cardinality({i \in 1..Len(h) :
                    IsEmptyCombo(h[i]) /\ (i = 1 \/ ~IsEmptyCombo(h[i - 1]))})

WaitingLines == Cardinality({i \in 1..Len(log) : log[i] = "waiting"})

LastWasEmpty == handled # <<>> /\ IsEmptyCombo(Last(handled))

\* C3 as claimed: "waiting" is logged exactly once per maximal run of empty
\* Combos, and last_count_was_0 is true exactly when the Combo handled last
\* was (0, 0).
C3_LatchAlways ==
    /\ WaitingLines = EmptyRuns(handled)
    /\ last_count_was_0 = LastWasEmpty

\* C3 amended: "waiting" is logged exactly once per maximal run of empty
\* Combos; the latch is reset by the next non-empty Combo whose sends succeed,
\* so while the aggregator has not stopped last_count_was_0 is true exactly
\* when the Combo handled last was (0, 0).
C3_Latch ==
    /\ WaitingLines = EmptyRuns(handled)
    /\ agg_state # "stopped" => last_count_was_0 = LastWasEmpty

\* two empty Combos in a row logged one line, and a non-empty one reset the latch
C3_Witness ==
    /\ Len(handled) = 3
    /\ IsEmptyCombo(handled[1])
    /\ IsEmptyCombo(handled[2])
    /\ ~IsEmptyCombo(handled[3])
    /\ WaitingLines = 1
    /\ ~last_count_was_0
    /\ agg_state = "running"

MessageHandled == msgs' # msgs

\* C4 as claimed: every Block handled is sent as Single on the compute-pool
\* channel and appended to block_queue; every BatchBlock is sent as one Batch
\* and each of its blocks appended; every StorageChange is appended to
\* storage_queue and nothing is sent on the compute-pool channel.
C4_HandlersAlways ==
    [][MessageHandled =>
          LET m == last_msg' IN
          /\ m.kind = "Block" =>
                /\ Sent(exec, exec') = <<[kind |-> "Single", blocks |-> <<m.b>>]>>
                /\ block_queue' = Append(block_queue, m.b)
          /\ m.kind = "BatchBlock" =>
                /\ Sent(exec, exec') = <<[kind |-> "Batch", blocks |-> m.v]>>
                /\ block_queue' = block_queue \o m.v
          /\ m.kind = "Storage" =>
                /\ storage_queue' = Append(storage_queue, m.s)
                /\ exec' = exec]_vars

\* C4 amended: the same, for a Block or BatchBlock handled while the receiver
\* of the compute-pool channel is alive; once it has been dropped the handler
\* returns the send error, sends nothing and enqueues nothing.
C4_Handlers ==
    [][MessageHandled =>
          LET m == last_msg' IN
          /\ (m.kind = "Block" /\ exec_open) =>
                /\ Sent(exec, exec') = <<[kind |-> "Single", blocks |-> <<m.b>>]>>
                /\ block_queue' = Append(block_queue, m.b)
                /\ storage_queue' = storage_queue
          /\ (m.kind = "BatchBlock" /\ exec_open) =>
                /\ Sent(exec, exec') = <<[kind |-> "Batch", blocks |-> m.v]>>
                /\ block_queue' = block_queue \o m.v
                /\ storage_queue' = storage_queue
          /\ (m.kind \in {"Block", "BatchBlock"} /\ ~exec_open) =>
                /\ exec' = exec
                /\ block_queue' = block_queue
                /\ storage_queue' = storage_queue
          /\ m.kind = "Storage" =>
                /\ storage_queue' = Append(storage_queue, m.s)
                /\ block_queue' = block_queue
                /\ exec' = exec]_vars

\* a BatchBlock of two blocks was sent as one Batch and both blocks are queued
C4_Witness ==
    /\ last_msg.kind = "BatchBlock"
    /\ Len(last_msg.v) = 2
    /\ exec # <<>>
    /\ Last(exec) = [kind |-> "Batch", blocks |-> last_msg.v]
    /\ Len(block_queue) >= 2
    /\ SubSeq(block_queue, Len(block_queue) - 1, Len(block_queue)) = last_msg.v

\* how often the item with identity id occurs in a sequence of items
Occ(id, s) == Cardinality({i \in 1..Len(s) : s[i].id = id})

RECURSIVE SumOcc(_, _)
SumOcc(id, ss) == IF ss = <<>> THEN 0 ELSE Occ(id, Head(ss)) + SumOcc(id, Tail(ss))

ComboItems(c) == c.blocks \o c.storage

\* the Combos that hold the item
CombosWith(id) == {i \in 1..Len(combos) : Occ(id, ComboItems(combos[i])) > 0}

Queued(id) == Occ(id, block_queue) + Occ(id, storage_queue) + Occ(id, tick_storage)
Pending(id) == SumOcc(id, [i \in 1..Len(mailbox) |-> ComboItems(mailbox[i])])
Delivered(id) == SumOcc(id, meta_addr) + SumOcc(id, db_addr)

\* C5: every accepted item flows through at most one drain: it is in at most
\* one Combo (exactly one once it has left the queues), and only once in it;
\* it is dispatched downstream at most once; and a drained item is dropped
\* only by an aggregator that has stopped.
C5_OneDrain ==
    /\ \A id \in accepted :
          /\ Cardinality(CombosWith(id)) <= 1
          /\ \A i \in CombosWith(id) : Occ(id, ComboItems(combos[i])) = 1
          /\ Queued(id) = 0 => Cardinality(CombosWith(id)) = 1
          /\ Queued(id) > 0 => CombosWith(id) = {}
          /\ Delivered(id) <= 1
          /\ Queued(id) + Pending(id) + Delivered(id)
               + (IF id \in discarded THEN 1 ELSE 0) = 1
    /\ discarded # {} => agg_state = "stopped"

\* items of two different ticks were both dispatched downstream
C5_Witness ==
    /\ Len(combos) >= 2
    /\ ComboItems(combos[1]) # <<>>
    /\ ComboItems(combos[2]) # <<>>
    /\ \A id \in accepted : Delivered(id) = 1
    /\ Cardinality(accepted) >= 2
\* ============================================================ database
\* block numbers are drawn from 1..MaxBlockNum
MaxBlockNum == 2
\* runtime spec versions are drawn from 1..MaxSpec
MaxSpec == 2
\* longest Vec<StorageModel> inserted as one batch
MaxVec == 2
\* inserts executed in one run of the insert specification
MaxInserts == 3

BlockNums == 1..MaxBlockNum
SpecVersions == 1..MaxSpec
Keys == {<<"k">>}
\* SQL NULL, bound for a StorageModel whose data() is None
Null == <<"NULL">>
StorageData == {Null, <<"v">>}

\* header().hash(): the hash names the block
HashOf(num) == <<"hash", num>>

\* a Block<B> with its spec, a StorageModel<B>, a Metadata
BlockItems == [num : BlockNums, spec : SpecVersions]
StorageModels == [block_num : BlockNums, key : Keys, data : StorageData, is_full : BOOLEAN]
MetadataItems == [version : SpecVersions]

SeqsUpTo(S, n) == UNION {[1..k -> S] : k \in 0..n}

\* the row bound by Insert for Block<B> / BatchBlock<B>
BlockRow(b) == [hash |-> HashOf(b.num), block_num |-> b.num, spec |-> b.spec]

\* the row bound by Insert for StorageModel<B> / Vec<StorageModel<B>>
StorageRow(s) == [block_num |-> s.block_num, hash |-> HashOf(s.block_num),
                  is_full |-> s.is_full, key |-> s.key, storage |-> s.data]

\* the row bound by Insert for Metadata
MetadataRow(m) == [version |-> m.version, meta |-> <<"meta", m.version>>]

\* md5(storage): strict, NULL for NULL
Md5(v) == IF v = Null THEN Null ELSE <<"md5">> \o v

\* INSERT INTO blocks ... ON CONFLICT DO NOTHING (hash is the primary key)
BlocksInsertRow(rows, r) ==
    IF \E e \in rows : e.hash = r.hash THEN rows ELSE rows \cup {r}

\* Insert for Block<B>
insert_block(d, b) ==
    [db |-> [d EXCEPT !.blocks = BlocksInsertRow(d.blocks, BlockRow(b))], ret |-> "Ok"]

RECURSIVE BlocksInsertRows(_, _)
BlocksInsertRows(rows, v) ==
    IF v = <<>> THEN rows
    ELSE BlocksInsertRows(BlocksInsertRow(rows, BlockRow(Head(v))), Tail(v))

\* Insert for BatchBlock<B>
insert_batch_block(d, v) ==
    [db |-> [d EXCEPT !.blocks = BlocksInsertRows(d.blocks, v)], ret |-> "Ok"]

\* an insert of metadata that reports success and writes no row
insert_metadata_dropped(d, m) == [db |-> d, ret |-> "Ok"]

\* Insert for Metadata: ON CONFLICT DO NOTHING (version is the primary key)
insert_metadata(d, m) ==
    [db |-> [d EXCEPT !.metadata =
                IF \E e \in d.metadata : e.version = m.version
                THEN d.metadata ELSE d.metadata \cup {MetadataRow(m)}],
     ret |-> "Ok"]

\* Insert for StorageModel<B>: the statement reads VALUES (#1, $2, ...), which
\* PostgreSQL rejects, so no row is written
insert_storage_model(d, s) == [db |-> d, ret |-> "Err"]

\* the arbiter index (hash, key, md5(storage)): a NULL md5 conflicts with nothing
Conflicts(e, r) ==
    /\ Md5(r.storage) # Null
    /\ e.hash = r.hash
    /\ e.key = r.key
    /\ Md5(e.storage) = Md5(r.storage)

\* one multi-row INSERT INTO storage ... ON CONFLICT (hash, key, md5(storage))
\* DO UPDATE SET hash, key, storage, is_full = EXCLUDED: the rows after the
\* proposed rows v; touched holds the rows this statement wrote. A proposed
\* row that conflicts with a row the statement already wrote aborts it.
RECURSIVE StorageUpsert(_, _, _)
StorageUpsert(rows, touched, v) ==
    IF v = <<>> THEN [rows |-> rows, ok |-> TRUE]
    ELSE LET r == StorageRow(Head(v))
             hit == {i \in 1..Len(rows) : Conflicts(rows[i], r)}
         IN IF hit = {}
            THEN StorageUpsert(Append(rows, r), touched \cup {Len(rows) + 1}, Tail(v))
            ELSE IF hit \cap touched # {}
            THEN [rows |-> rows, ok |-> FALSE]
            ELSE LET i == CHOOSE j \in hit : TRUE IN
                 StorageUpsert([rows EXCEPT ![i] =
                                   [@ EXCEPT !.hash = r.hash, !.key = r.key,
                                             !.storage = r.storage,
                                             !.is_full = r.is_full]],
                               touched \cup {i}, Tail(v))

\* Insert for Vec<StorageModel<B>>
insert_storage_vec(d, v) ==
    LET u == StorageUpsert(d.storage, {}, v) IN
    IF u.ok THEN [db |-> [d EXCEPT !.storage = u.rows], ret |-> "Ok"]
    ELSE [db |-> d, ret |-> "Err"]

\* Database::insert(data: impl Insert), dispatched by the kind of the item
DbInsert(d, item) ==
    CASE item.kind = "Block" -> insert_block(d, item.data)
      [] item.kind = "BatchBlock" -> insert_batch_block(d, item.data)
      [] item.kind = "StorageModel" -> insert_storage_model(d, item.data)
      [] item.kind = "VecStorageModel" -> insert_storage_vec(d, item.data)
      [] item.kind = "Metadata" -> insert_metadata(d, item.data)

\* one Database::insert of item: the tables and the history after it
Inserted(item, replay) ==
    [db |-> DbInsert(db, item).db,
     last |-> [kind |-> item.kind, data |-> item.data, replay |-> replay,
               ret |-> DbInsert(db, item).ret]]

DbInsertBlock ==
    /\ db_ops < MaxInserts
    /\ \E b \in BlockItems :
         LET r == Inserted([kind |-> "Block", data |-> b], FALSE) IN
         db' = r.db /\ db_last' = r.last
    /\ db_ops' = db_ops + 1
    /\ UNCHANGED non_db_vars

DbInsertBatchBlock ==
    /\ db_ops < MaxInserts
    /\ \E v \in SeqsUpTo(BlockItems, MaxBatch) :
         LET r == Inserted([kind |-> "BatchBlock", data |-> v], FALSE) IN
         db' = r.db /\ db_last' = r.last
    /\ db_ops' = db_ops + 1
    /\ UNCHANGED non_db_vars

DbInsertStorageModel ==
    /\ db_ops < MaxInserts
    /\ \E s \in StorageModels :
         LET r == Inserted([kind |-> "StorageModel", data |-> s], FALSE) IN
         db' = r.db /\ db_last' = r.last
    /\ db_ops' = db_ops + 1
    /\ UNCHANGED non_db_vars

DbInsertStorageVec ==
    /\ db_ops < MaxInserts
    /\ \E v \in SeqsUpTo(StorageModels, MaxVec) :
         LET r == Inserted([kind |-> "VecStorageModel", data |-> v], FALSE) IN
         db' = r.db /\ db_last' = r.last
    /\ db_ops' = db_ops + 1
    /\ UNCHANGED non_db_vars

DbInsertMetadata ==
    /\ db_ops < MaxInserts
    /\ \E m \in MetadataItems :
         LET r == Inserted([kind |-> "Metadata", data |-> m], FALSE) IN
         db' = r.db /\ db_last' = r.last
    /\ db_ops' = db_ops + 1
    /\ UNCHANGED non_db_vars

\* the upstream delivers the item it delivered last once more
DbReplay ==
    /\ db_ops < MaxInserts
    /\ db_last.kind # "None"
    /\ LET r == Inserted([kind |-> db_last.kind, data |-> db_last.data], TRUE) IN
       db' = r.db /\ db_last' = r.last
    /\ db_ops' = db_ops + 1
    /\ UNCHANGED non_db_vars

NextDb ==
    \/ DbInsertBlock
    \/ DbInsertBatchBlock
    \/ DbInsertStorageModel
    \/ DbInsertStorageVec
    \/ DbInsertMetadata
    \/ DbReplay

SpecDb == Init /\ [][NextDb]_vars

\* ---------------------------------------------------- database: properties
\* C8: inserts are idempotent. Inserting an item a second time, right after
\* the first time, leaves blocks, metadata and storage exactly as the first
\* insert left them.
C8_Idempotent == [][(db_ops' # db_ops /\ db_last'.replay) => db' = db]_vars
\* ===================================================== deferred storage
\* longest storage batch that reaches the sink
MaxWorkingSet == 2

\* the storage changes of a batch that reaches the sink
DeferItems == [block_num : BlockNums, key : Keys, data : {<<"v">>}, is_full : {FALSE}]

PresentNums(d) == {b.block_num : b \in d.blocks}

\* queries::missing_blocks_min_max: SELECT n FROM generate_series(lo, hi) AS n
\* WHERE n NOT IN (SELECT block_num FROM blocks)
missing_blocks_min_max(d, lo, hi) == {n \in lo..hi : n \notin PresentNums(d)}

MinOf(S) == CHOOSE x \in S : \A y \in S : x <= y
MaxOf(S) == CHOOSE x \in S : \A y \in S : x >= y

\* the retain closure returning false for every record: none is kept
entry_partition_none_kept(storage, missing) ==
    LET Ready(s) == s.block_num \notin missing
    IN [ready |-> SelectSeq(storage, Ready), storage |-> <<>>]

\* the retain closure with its test inverted: the waiting records are sent
entry_partition_inverted(storage, missing) ==
    LET Waits(s) == s.block_num \in missing
        Ready(s) == s.block_num \notin missing
    IN [ready |-> SelectSeq(storage, Waits), storage |-> SelectSeq(storage, Ready)]

\* entry: storage.retain(|s| if !missing.contains(&s.block_num()) { ready.push(s); false } else { true })
entry_partition(storage, missing) ==
    LET Waits(s) == s.block_num \in missing
        Ready(s) == s.block_num \notin missing
    IN [ready |-> SelectSeq(storage, Ready), storage |-> SelectSeq(storage, Waits)]

\* the loop with its exit test lost: the worker probes again whatever is left
loop_break_never(storage) == FALSE

\* the loop test with its negation lost
loop_break_negated(storage) == Len(storage) > 0

\* actor: if !(storage.len() > 0) { break; }
loop_break(storage) == ~(Len(storage) > 0)

\* the StorageModel rows of a batch of tagged records
Untagged(v) == [i \in 1..Len(v) |->
                  [block_num |-> v[i].block_num, key |-> v[i].key,
                   data |-> v[i].data, is_full |-> v[i].is_full]]

\* referential absence at the sink: the rows whose block_num is in blocks are
\* inserted, the others are routed to the deferred-storage worker
route_storage(v, d) ==
    LET Present(s) == s.block_num \in PresentNums(d)
        Absent(s) == s.block_num \notin PresentNums(d)
    IN [insert |-> SelectSeq(v, Present), deferred |-> SelectSeq(v, Absent)]

\* the sink receives a storage batch: the rows whose block is in blocks are
\* inserted, and a deferred-storage worker is started with the others
SinkStorageArrives ==
    /\ defer_state = "none"
    /\ \E v \in SeqsUpTo(DeferItems, MaxWorkingSet) :
         LET tagged == [i \in 1..Len(v) |->
                          [id |-> i, block_num |-> v[i].block_num, key |-> v[i].key,
                           data |-> v[i].data, is_full |-> v[i].is_full]]
             p == route_storage(tagged, db)
             waiting == [i \in 1..Len(p.deferred) |-> [p.deferred[i] EXCEPT !.id = i]]
         IN /\ db' = insert_storage_vec(db, Untagged(p.insert)).db
            /\ IF waiting = <<>>
               THEN UNCHANGED <<defer_state, defer_init, defer_storage, defer_sent>>
               ELSE \* defer_storage::actor(pool, db_workers, waiting)
                    /\ defer_state' = "probe"
                    /\ defer_init' = waiting
                    /\ defer_storage' = waiting
                    /\ defer_sent' = {}
    /\ UNCHANGED <<non_defer_db_vars, db_ops, db_last, defer_waited, defer_probe>>

\* a block of the block stream is inserted into blocks
BlockInserted ==
    /\ \E num \in BlockNums :
         /\ num \notin PresentNums(db)
         /\ db' = insert_block(db, [num |-> num, spec |-> 1]).db
    /\ UNCHANGED <<non_defer_db_vars, db_ops, db_last, defer_vars>>

\* entry returns Ok: the query answered and the sink took the ready batch
DeferEntryOk ==
    /\ defer_state = "probe"
    /\ defer_storage # <<>>
    /\ LET nums == {defer_storage[i].block_num : i \in 1..Len(defer_storage)}
           missing == missing_blocks_min_max(db, MinOf(nums), MaxOf(nums))
           p == entry_partition(defer_storage, missing)
           ids == {p.ready[i].id : i \in 1..Len(p.ready)}
       IN /\ defer_storage' = p.storage
          /\ db' = insert_storage_vec(db, Untagged(p.ready)).db
          /\ defer_sent' = defer_sent \cup ids
          /\ defer_waited' = (defer_waited \/ p.storage # <<>>)
          /\ defer_probe' = [outcome |-> "ok", ready |-> p.ready]
    /\ defer_state' = "sleep"
    /\ UNCHANGED <<non_defer_db_vars, db_ops, db_last, defer_init>>

\* the Err arm ending the loop instead of logging
DeferEntryQueryErr_stops ==
    /\ defer_state = "probe"
    /\ defer_storage # <<>>
    /\ defer_state' = "done"
    /\ defer_probe' = [outcome |-> "err", ready |-> <<>>]
    /\ UNCHANGED <<non_defer_db_vars, db_vars, defer_init, defer_storage, defer_sent,
                   defer_waited>>

\* entry returns Err: missing_blocks_min_max(..).await? failed; the error is logged
DeferEntryQueryErr ==
    /\ defer_state = "probe"
    /\ defer_storage # <<>>
    /\ defer_state' = "sleep"
    /\ defer_probe' = [outcome |-> "err", ready |-> <<>>]
    /\ UNCHANGED <<non_defer_db_vars, db_vars, defer_init, defer_storage, defer_sent,
                   defer_waited>>

\* entry panics: missing[0] on an empty working set, or ask_next(ready).unwrap()
\* / .expect("Couldn't send storage to database") after the retain; the
\* supervisor runs the exec closure again, which clones the captured storage
DeferEntryPanic ==
    /\ defer_state = "probe"
    /\ defer_state' = "probe"
    /\ defer_storage' = defer_init
    /\ defer_probe' = [outcome |-> "none", ready |-> <<>>]
    /\ UNCHANGED <<non_defer_db_vars, db_vars, defer_init, defer_sent, defer_waited>>

\* actor: sleep(5 s); if !(storage.len() > 0) { break; }
DeferSleepCheck ==
    /\ defer_state = "sleep"
    /\ defer_state' = IF loop_break(defer_storage) THEN "done" ELSE "probe"
    /\ defer_probe' = [outcome |-> "none", ready |-> <<>>]
    /\ UNCHANGED <<non_defer_db_vars, db_vars, defer_init, defer_storage, defer_sent,
                   defer_waited>>

NextDefer ==
    \/ SinkStorageArrives
    \/ BlockInserted
    \/ DeferEntryOk
    \/ DeferEntryQueryErr
    \/ DeferEntryPanic
    \/ DeferSleepCheck

SpecDefer == Init /\ [][NextDefer]_vars

\* the worker is scheduled, and neither the query nor the send fails for ever
SpecDeferFair ==
    SpecDefer /\ WF_vars(DeferSleepCheck) /\ SF_vars(DeferEntryOk)

\* --------------------------------------------- deferred storage: properties
\* every block the initial working set refers to is in blocks
AllPresent == \A i \in 1..Len(defer_init) : defer_init[i].block_num \in PresentNums(db)

AllSent == \A i \in 1..Len(defer_init) : i \in defer_sent

\* C6: referential integrity. Every row persisted in storage has a row with
\* the same block_num in blocks (already when it is persisted, hence no later
\* than the end of the run), whatever the order of the two streams.
C6_ReferentialIntegrity ==
    \A i \in 1..Len(db.storage) : db.storage[i].block_num \in PresentNums(db)

\* a storage change that reached the sink before its block was persisted later
C6_Witness ==
    /\ defer_state = "done"
    /\ defer_waited
    /\ db.storage # <<>>
    /\ \E i \in 1..Len(db.storage) : \E j \in 1..Len(defer_init) :
          db.storage[i].block_num = defer_init[j].block_num

MaxHeads == 2
\* messages other than the broadcast delivered to the actor in one run
MaxUnknown == 1

ShutdownDelivered == \E i \in 1..Len(net_inbox) : net_inbox[i] = "Shutdown"

\* handle_shutdown taking the broadcast and returning false all the same
handle_shutdown_never_stops(inbox) ==
    IF inbox = <<>> THEN [stop |-> FALSE, inbox |-> inbox, warn |-> FALSE]
    ELSE [stop |-> FALSE, inbox |-> Tail(inbox), warn |-> Head(inbox) # "Shutdown"]

\* handle_shutdown returning true for every message it takes
handle_shutdown_any_message_stops(inbox) ==
    IF inbox = <<>> THEN [stop |-> FALSE, inbox |-> inbox, warn |-> FALSE]
    ELSE [stop |-> TRUE, inbox |-> Tail(inbox), warn |-> Head(inbox) # "Shutdown"]

\* handle_shutdown: ctx.try_recv() takes at most one message and never waits;
\* Broadcast::Shutdown returns true, any other message is logged, and
\* everything else returns false
handle_shutdown(inbox) ==
    IF inbox = <<>> THEN [stop |-> FALSE, inbox |-> inbox, warn |-> FALSE]
    ELSE [stop |-> Head(inbox) = "Shutdown", inbox |-> Tail(inbox),
          warn |-> Head(inbox) # "Shutdown"]

\* entry: rpc.subscribe_finalized_heads().await succeeds
NetSubscribeOk ==
    /\ net_pc = "connecting"
    /\ net_pc' = "poll"
    /\ net_sub' = "open"
    /\ UNCHANGED <<net_inbox, net_heads, net_head, net_backend, net_meta_open,
                   net_told, net_warned, net_sent_heads, net_sent_unknown>>
    /\ UNCHANGED <<net_handed, net_log, net_exit, bastion_stopped, net_shut_at>>
    /\ UNCHANGED non_net_vars

\* entry: .map_err(ArchiveError::from)? returns the subscription error; actor
\* logs it and calls Bastion::stop()
NetSubscribeErr ==
    /\ net_pc = "connecting"
    /\ net_pc' = "stopped"
    /\ net_exit' = "err"
    /\ bastion_stopped' = TRUE
    /\ UNCHANGED <<net_sub, net_inbox, net_heads, net_head, net_backend, net_meta_open,
                   net_told, net_warned, net_sent_heads, net_sent_unknown>>
    /\ UNCHANGED <<net_handed, net_log, net_shut_at>>
    /\ UNCHANGED non_net_vars

\* entry: if handle_shutdown(..).await { break; }; on break entry returns and
\* the subscription it owns is dropped
NetPoll ==
    /\ net_pc = "poll"
    /\ LET r == handle_shutdown(net_inbox) IN
         /\ net_inbox' = r.inbox
         /\ net_warned' = (net_warned \/ r.warn)
         /\ net_log' = IF r.warn THEN Append(net_log, "unknown") ELSE net_log
         /\ net_pc' = IF r.stop THEN "stopped" ELSE "await_head"
         /\ net_sub' = IF r.stop THEN "closed" ELSE net_sub
         /\ net_exit' = IF r.stop THEN "ok" ELSE net_exit
         /\ bastion_stopped' = r.stop
    /\ UNCHANGED <<net_heads, net_head, net_backend, net_meta_open, net_told,
                   net_sent_heads, net_sent_unknown>>
    /\ UNCHANGED <<net_handed, net_shut_at>>
    /\ UNCHANGED non_net_vars

\* entry: let head = subscription.next().await; returns when a head is there
NetNextHead ==
    /\ net_pc = "await_head"
    /\ net_heads # <<>>
    /\ net_head' = Head(net_heads)
    /\ net_heads' = Tail(net_heads)
    /\ net_pc' = "lookup"
    /\ UNCHANGED <<net_sub, net_inbox, net_backend, net_meta_open, net_told,
                   net_warned, net_sent_heads, net_sent_unknown>>
    /\ UNCHANGED <<net_handed, net_log, net_exit, bastion_stopped, net_shut_at>>
    /\ UNCHANGED non_net_vars

\* the lookup with a missing body treated as an error that ends entry
NetLookup_missing_is_fatal ==
    /\ net_pc = "lookup"
    /\ IF net_head \in net_backend
       THEN IF net_meta_open
            THEN /\ net_told' = Append(net_told, net_head)
                 /\ net_handed' = Append(net_handed, net_head)
                 /\ net_pc' = "poll"
                 /\ UNCHANGED <<net_sub, net_warned, net_log, net_exit, bastion_stopped>>
            ELSE \* tell_next fails: entry returns Err, the subscription is dropped
                 /\ net_handed' = Append(net_handed, net_head)
                 /\ net_pc' = "stopped"
                 /\ net_sub' = "closed"
                 /\ net_exit' = "err"
                 /\ bastion_stopped' = TRUE
                 /\ UNCHANGED <<net_told, net_warned, net_log>>
       ELSE /\ net_pc' = "stopped"
            /\ net_sub' = "closed"
            /\ net_exit' = "err"
            /\ bastion_stopped' = TRUE
            /\ UNCHANGED <<net_warned, net_log, net_told, net_handed>>
    /\ net_head' = 0
    /\ UNCHANGED net_shut_at
    /\ UNCHANGED <<net_inbox, net_heads, net_backend, net_meta_open,
                   net_sent_heads, net_sent_unknown>>
    /\ UNCHANGED non_net_vars

\* entry: client.block(..); Some(b) => sched.tell_next("meta", b)?, else warn
NetLookup ==
    /\ net_pc = "lookup"
    /\ IF net_head \in net_backend
       THEN IF net_meta_open
            THEN /\ net_told' = Append(net_told, net_head)
                 /\ net_handed' = Append(net_handed, net_head)
                 /\ net_pc' = "poll"
                 /\ UNCHANGED <<net_sub, net_warned, net_log, net_exit, bastion_stopped>>
            ELSE \* tell_next fails: entry returns Err, the subscription is dropped
                 /\ net_handed' = Append(net_handed, net_head)
                 /\ net_pc' = "stopped"
                 /\ net_sub' = "closed"
                 /\ net_exit' = "err"
                 /\ bastion_stopped' = TRUE
                 /\ UNCHANGED <<net_told, net_warned, net_log>>
       ELSE /\ net_warned' = TRUE
            /\ net_log' = Append(net_log, "missing")
            /\ net_pc' = "poll"
            /\ UNCHANGED <<net_sub, net_told, net_handed, net_exit, bastion_stopped>>
    /\ net_head' = 0
    /\ UNCHANGED net_shut_at
    /\ UNCHANGED <<net_inbox, net_heads, net_backend, net_meta_open,
                   net_sent_heads, net_sent_unknown>>
    /\ UNCHANGED non_net_vars

\* the node finalizes a block and notifies the open subscription
NodeFinalizes ==
    /\ net_sub = "open"
    /\ net_sent_heads < MaxHeads
    /\ net_sent_heads' = net_sent_heads + 1
    /\ net_heads' = Append(net_heads, net_sent_heads + 1)
    /\ UNCHANGED <<net_pc, net_sub, net_inbox, net_head, net_backend, net_meta_open,
                   net_told, net_warned, net_sent_unknown>>
    /\ UNCHANGED <<net_handed, net_log, net_exit, bastion_stopped, net_shut_at>>
    /\ UNCHANGED non_net_vars

\* the block store imports the body of a notified block
BackendImports ==
    /\ \E n \in 1..net_sent_heads :
         /\ n \notin net_backend
         /\ net_backend' = net_backend \cup {n}
    /\ UNCHANGED <<net_pc, net_sub, net_inbox, net_heads, net_head, net_meta_open,
                   net_told, net_warned, net_sent_heads, net_sent_unknown>>
    /\ UNCHANGED <<net_handed, net_log, net_exit, bastion_stopped, net_shut_at>>
    /\ UNCHANGED non_net_vars

\* the Shutdown broadcast is delivered to the actor's inbox
BroadcastShutdown ==
    /\ net_pc # "stopped"
    /\ ~ShutdownDelivered
    /\ net_inbox' = Append(net_inbox, "Shutdown")
    /\ UNCHANGED <<net_pc, net_sub, net_heads, net_head, net_backend, net_meta_open,
                   net_told, net_warned, net_sent_heads, net_sent_unknown>>
    /\ UNCHANGED <<net_handed, net_log, net_exit, bastion_stopped>>
    /\ net_shut_at' = net_pc
    /\ UNCHANGED non_net_vars

\* a message that is no broadcast is delivered to the actor's inbox
UnknownMessage ==
    /\ net_pc # "stopped"
    /\ net_sent_unknown < MaxUnknown
    /\ net_sent_unknown' = net_sent_unknown + 1
    /\ net_inbox' = Append(net_inbox, "Unknown")
    /\ UNCHANGED <<net_pc, net_sub, net_heads, net_head, net_backend, net_meta_open,
                   net_told, net_warned, net_sent_heads>>
    /\ UNCHANGED <<net_handed, net_log, net_exit, bastion_stopped, net_shut_at>>
    /\ UNCHANGED non_net_vars

\* the metadata workers stop: tell_next fails from now on
MetaWorkersStop ==
    /\ net_meta_open
    /\ net_meta_open' = FALSE
    /\ UNCHANGED <<net_pc, net_sub, net_inbox, net_heads, net_head, net_backend,
                   net_told, net_warned, net_sent_heads, net_sent_unknown>>
    /\ UNCHANGED <<net_handed, net_log, net_exit, bastion_stopped, net_shut_at>>
    /\ UNCHANGED non_net_vars

NextNet ==
    \/ NetSubscribeOk
    \/ NetSubscribeErr
    \/ NetPoll
    \/ NetNextHead
    \/ NetLookup
    \/ NodeFinalizes
    \/ BackendImports
    \/ BroadcastShutdown
    \/ UnknownMessage
    \/ MetaWorkersStop

SpecNet == Init /\ [][NextNet]_vars

\* the source's task is scheduled: each of its own steps is taken when it
\* stays possible. Nothing obliges the node to finalize another block.
SpecNetFair ==
    /\ SpecNet
    /\ WF_vars(NetSubscribeOk \/ NetSubscribeErr)
    /\ WF_vars(NetPoll)
    /\ WF_vars(NetNextHead)
    /\ WF_vars(NetLookup)

\* ---------------------------------------- finalized-head source: properties
\* C9: once a Shutdown broadcast is in the source's inbox, the source
\* eventually leaves its loop and has returned with no subscription left open,
\* whether or not the node notifies another finalized head.
C9_ShutdownReturns ==
    ShutdownDelivered ~> (net_pc = "stopped" /\ net_sub # "open")
\* ================================================= metadata worker pool
\* blocks dispatched to the pool in one run
MaxMetaMsgs == 3

NoBlock == [num |-> 0, spec |-> 0]

HasMetadata(d, v) == \E m \in d.metadata : m.version = v

\* a block is dispatched to an idle worker of the pool
MetaReceive ==
    \E w \in MetaWorkers :
      /\ meta_pc[w] = "idle"
      /\ meta_msgs < MaxMetaMsgs
      /\ meta_msgs' = meta_msgs + 1
      /\ \E b \in BlockItems : meta_cur' = [meta_cur EXCEPT ![w] = b]
      /\ meta_pc' = [meta_pc EXCEPT ![w] = "check"]
      /\ UNCHANGED <<db_vars, meta_cache, sink_blocks>>
      /\ UNCHANGED non_meta_db_vars

\* the worker examines spec_version against its local cache
MetaCheck ==
    \E w \in MetaWorkers :
      /\ meta_pc[w] = "check"
      /\ meta_pc' = [meta_pc EXCEPT ![w] =
                        IF meta_cur[w].spec \in meta_cache[w] THEN "forward" ELSE "fetch"]
      /\ UNCHANGED <<db_vars, meta_cur, meta_cache, sink_blocks, meta_msgs>>
      /\ UNCHANGED non_meta_db_vars

\* the metadata blob of the block's spec version is fetched from the node
MetaFetchOk ==
    \E w \in MetaWorkers :
      /\ meta_pc[w] = "fetch"
      /\ meta_pc' = [meta_pc EXCEPT ![w] = "insert"]
      /\ UNCHANGED <<db_vars, meta_cur, meta_cache, sink_blocks, meta_msgs>>
      /\ UNCHANGED non_meta_db_vars

\* the fetch fails past its retry bound or the insert fails: the error
\* surfaces, the block is not forwarded and the supervisor restarts the worker
MetaFail ==
    \E w \in MetaWorkers :
      /\ meta_pc[w] \in {"fetch", "insert"}
      /\ meta_pc' = [meta_pc EXCEPT ![w] = "idle"]
      /\ meta_cur' = [meta_cur EXCEPT ![w] = NoBlock]
      /\ meta_cache' = [meta_cache EXCEPT ![w] = {}]
      /\ UNCHANGED <<db_vars, sink_blocks, meta_msgs>>
      /\ UNCHANGED non_meta_db_vars

\* the worker inserts the Metadata row and remembers the spec version
MetaInsert ==
    \E w \in MetaWorkers :
      /\ meta_pc[w] = "insert"
      /\ db' = insert_metadata(db, [version |-> meta_cur[w].spec]).db
      /\ meta_cache' = [meta_cache EXCEPT ![w] = @ \cup {meta_cur[w].spec}]
      /\ meta_pc' = [meta_pc EXCEPT ![w] = "forward"]
      /\ UNCHANGED <<db_ops, db_last, meta_cur, sink_blocks, meta_msgs>>
      /\ UNCHANGED non_meta_db_vars

\* the worker forwards the block, unchanged, to the database sink
MetaForward ==
    \E w \in MetaWorkers :
      /\ meta_pc[w] = "forward"
      /\ sink_blocks' = Append(sink_blocks, meta_cur[w])
      /\ meta_pc' = [meta_pc EXCEPT ![w] = "idle"]
      /\ meta_cur' = [meta_cur EXCEPT ![w] = NoBlock]
      /\ UNCHANGED <<db_vars, meta_cache, meta_msgs>>
      /\ UNCHANGED non_meta_db_vars

\* the sink inserts the next forwarded block
SinkInsertBlock ==
    /\ sink_blocks # <<>>
    /\ db' = insert_block(db, Head(sink_blocks)).db
    /\ sink_blocks' = Tail(sink_blocks)
    /\ UNCHANGED <<db_ops, db_last, meta_pc, meta_cur, meta_cache, meta_msgs>>
    /\ UNCHANGED non_meta_db_vars


NextMeta ==
    \/ MetaReceive
    \/ MetaCheck
    \/ MetaFetchOk
    \/ MetaFail
    \/ MetaInsert
    \/ MetaForward
    \/ SinkInsertBlock

SpecMeta == Init /\ [][NextMeta]_vars

\* ----------------------------------------- metadata worker pool: properties
\* C10: in every reachable state, every block in blocks and every block
\* forwarded to the sink (or about to be forwarded by a worker) has the
\* metadata row of its spec version, for every interleaving of the workers.
C10_MetadataBeforeBlock ==
    /\ \A b \in db.blocks : HasMetadata(db, b.spec)
    /\ \A i \in 1..Len(sink_blocks) : HasMetadata(db, sink_blocks[i].spec)
    /\ \A w \in MetaWorkers : meta_pc[w] = "forward" => HasMetadata(db, meta_cur[w].spec)

\* two blocks of one spec version went through different workers: one worker
\* inserted the row, the other found it there, and both blocks are in blocks
C10_Witness ==
    /\ Cardinality(db.blocks) = 2
    /\ \A b \in db.blocks : b.spec = 1
    /\ \A w \in MetaWorkers : 1 \in meta_cache[w]
    /\ Cardinality(db.metadata) = 1
\* ========================================================= batch builder
\* rows of one batch insert
MaxRows == 4
\* the largest per-statement cap on bound parameters
MaxCap == 17

\* bound parameters per row: batch.reserve(5) for storage, batch.reserve(8) for blocks
RowArgs == {5, 8}

\* the caps: each admits one row of either kind
Caps == MaxOf(RowArgs)..MaxCap

Sql(s) == [t |-> "sql", s |-> s, row |-> 0, col |-> 0]
Bind(row, col) == [t |-> "bind", s |-> "$", row |-> row, col |-> col]

\* the bound parameters of one statement
ChunkArgs(chunk) == SelectSeq(chunk, LAMBDA x : x.t = "bind")

\* Batch::new: one statement, nothing bound
batch_new == <<<<>>>>

\* Batch::current_num_arguments: parameters bound in the current statement
current_num_arguments(chunks) == Len(ChunkArgs(chunks[Len(chunks)]))

\* Batch::reserve(n): when n more parameters would exceed the cap, the
\* current statement is closed and a new one begins
batch_reserve(chunks, n, cap) ==
    IF current_num_arguments(chunks) + n > cap THEN Append(chunks, <<>>) ELSE chunks

\* Batch::append(sql) / Batch::bind(value): onto the current statement
batch_append(chunks, x) == [chunks EXCEPT ![Len(chunks)] = Append(@, x)]

\* the columns of a row from col on: bind, and "," between two binds
RECURSIVE batch_bind_cols(_, _, _, _)
batch_bind_cols(chunks, row, col, k) ==
    IF col > k THEN chunks
    ELSE batch_bind_cols(
            IF col < k
            THEN batch_append(batch_append(chunks, Bind(row, col)), Sql(","))
            ELSE batch_append(chunks, Bind(row, col)),
            row, col + 1, k)

\* the loop body with the reserve made after the first bind
batch_push_row_late_reserve(chunks, row, k, cap) ==
    LET sep == IF current_num_arguments(chunks) > 0
               THEN batch_append(chunks, Sql(",")) ELSE chunks
        first == batch_append(batch_append(batch_append(sep, Sql("(")), Bind(row, 1)), Sql(","))
        reserved == batch_reserve(first, k, cap)
    IN batch_append(batch_bind_cols(reserved, row, 2, k), Sql(")"))

\* the loop body of the two batch inserts: batch.reserve(k)?; "," when the
\* current statement has arguments; "("; k binds separated by ","; ")"
batch_push_row(chunks, row, k, cap) ==
    LET reserved == batch_reserve(chunks, k, cap)
        sep == IF current_num_arguments(reserved) > 0
               THEN batch_append(reserved, Sql(",")) ELSE reserved
    IN batch_append(batch_bind_cols(batch_append(sep, Sql("(")), row, 1, k), Sql(")"))

\* Batch::execute: one round trip per statement that binds anything
batch_execute(chunks) == SelectSeq(chunks, LAMBDA c : Len(ChunkArgs(c)) > 0)

\* Batch::new(..) at the top of insert, for an input of n rows
BatchNew ==
    /\ batch_pc = "none"
    /\ \E cap \in Caps, k \in RowArgs, n \in 0..MaxRows :
         /\ batch_cap' = cap
         /\ batch_args' = k
         /\ batch_rows' = n
    /\ batch_pc' = "building"
    /\ batch_chunks' = batch_new
    /\ UNCHANGED <<batch_done, batch_emitted>>
    /\ UNCHANGED non_batch_vars

\* one iteration of for s in self.into_iter() { .. }
BatchPushRow ==
    /\ batch_pc = "building"
    /\ batch_done < batch_rows
    /\ batch_done' = batch_done + 1
    /\ batch_chunks' = batch_push_row(batch_chunks, batch_done + 1, batch_args, batch_cap)
    /\ UNCHANGED <<batch_pc, batch_cap, batch_args, batch_rows, batch_emitted>>
    /\ UNCHANGED non_batch_vars

\* batch.execute(&mut conn).await? after the loop
BatchExecute ==
    /\ batch_pc = "building"
    /\ batch_done = batch_rows
    /\ batch_pc' = "executed"
    /\ batch_emitted' = batch_execute(batch_chunks)
    /\ UNCHANGED <<batch_cap, batch_args, batch_rows, batch_done, batch_chunks>>
    /\ UNCHANGED non_batch_vars

NextBatch ==
    \/ BatchNew
    \/ BatchPushRow
    \/ BatchExecute

SpecBatch == Init /\ [][NextBatch]_vars

\* ------------------------------------------------ batch builder: properties
RECURSIVE TotalArgs(_)
TotalArgs(chunks) ==
    IF chunks = <<>> THEN 0 ELSE Len(ChunkArgs(Head(chunks))) + TotalArgs(Tail(chunks))

\* the statements that hold a bound parameter of the row
ChunksOfRow(chunks, row) ==
    {i \in 1..Len(chunks) : \E j \in 1..Len(chunks[i]) :
        chunks[i][j].t = "bind" /\ chunks[i][j].row = row}

\* the row's parameters in the statement, in order
RowCols(chunk, row) ==
    LET a == SelectSeq(chunk, LAMBDA x : x.t = "bind" /\ x.row = row)
    IN [j \in 1..Len(a) |-> a[j].col]

\* C11: no statement of a batch insert, under construction or executed,
\* binds more parameters than the cap; the executed statements bind exactly
\* 5N (storage) or 8N (blocks) parameters in total; and every row's
\* parameters are all in one statement.
C11_ParameterCap ==
    /\ \A i \in 1..Len(batch_chunks) : Len(ChunkArgs(batch_chunks[i])) <= batch_cap
    /\ \A i \in 1..Len(batch_emitted) : Len(ChunkArgs(batch_emitted[i])) <= batch_cap
    /\ batch_pc = "executed" => TotalArgs(batch_emitted) = batch_args * batch_rows
    /\ TotalArgs(batch_chunks) = batch_args * batch_done
    /\ \A row \in 1..batch_done :
          /\ Cardinality(ChunksOfRow(batch_chunks, row)) = 1
          /\ \A i \in ChunksOfRow(batch_chunks, row) :
                RowCols(batch_chunks[i], row) = [j \in 1..batch_args |-> j]
    /\ batch_pc = "executed" =>
          \A row \in 1..batch_rows :
             /\ Cardinality(ChunksOfRow(batch_emitted, row)) = 1
             /\ \A i \in ChunksOfRow(batch_emitted, row) :
                   RowCols(batch_emitted[i], row) = [j \in 1..batch_args |-> j]

\* a batch that did not fit one statement was executed: the cap made the
\* builder begin a second statement, and some statement holds two rows
C11_Witness ==
    /\ batch_pc = "executed"
    /\ Len(batch_emitted) >= 2
    /\ \E i \in 1..Len(batch_emitted) :
          Len(ChunkArgs(batch_emitted[i])) = 2 * batch_args
\* ------------------------------------------- aggregator: further properties
\* this step is a Block or BatchBlock handler whose exec.send(..) fails
ExecSendFails ==
    /\ msgs' = msgs + 1
    /\ last_msg'.kind \in {"Block", "BatchBlock"}
    /\ ~exec_open

\* this step is a Combo handler one of whose do_send(..) fails
AddrSendFails ==
    /\ handled' # handled
    /\ ~ComboDispatch(Head(mailbox).blocks, Head(mailbox).storage,
                      last_count_was_0, meta_open, db_open).ok

\* C12: a send of the aggregator to a dropped receiver (the compute-pool
\* channel, the Metadata worker or the Database sink) leaves the aggregator
\* stopped, and a stopped aggregator sends nothing more.
C12_ChannelClosedStops ==
    /\ [][(ExecSendFails \/ AddrSendFails) => agg_state' = "stopped"]_vars
    /\ [][agg_state = "stopped" => UNCHANGED <<exec, meta_addr, db_addr>>]_vars
\* this step is the first half of a tick: the storage queue is drained
StorageDrainStep == timer = "idle" /\ timer' = "storage_drained"

\* this step is the second half of a tick: the block queue is drained and
\* the Combo is built
BlockDrainStep == timer = "storage_drained" /\ timer' # "storage_drained"

\* the batches of a sequence, concatenated
RECURSIVE Flatten(_)
Flatten(ss) == IF ss = <<>> THEN <<>> ELSE Head(ss) \o Flatten(Tail(ss))

\* items are numbered as the aggregator receives them: every item of the
\* sequence was received after all items before it
Ascending(s) == \A i, j \in 1..Len(s) : i < j => s[i].id < s[j].id

\* C15 as stated: the Combo of a tick is the contents of both queues at the
\* start of the tick.
C15_AtomicDrain ==
    [][BlockDrainStep =>
          /\ Last(combos').blocks = snap.blocks
          /\ Last(combos').storage = MapStorageFrom(snap.storage)]_vars

\* C15, amended: each queue is drained at one instant of its own, the
\* storage queue first and the block queue later in the same tick. The
\* Combo holds exactly what storage_queue held at the first instant and what
\* block_queue held at the second, and each queue is empty right after its
\* drain; so an item enqueued after the drain of its queue awaits the next
\* tick, and within one queue an item enqueued before an item of a Combo is
\* in that Combo or an earlier one.
C15_DrainPerQueue ==
    /\ [][StorageDrainStep =>
            /\ tick_storage' = MapStorageFrom(storage_queue)
            /\ storage_queue' = <<>>]_vars
    /\ [][BlockDrainStep =>
            /\ Last(combos').blocks = block_queue
            /\ Last(combos').storage = tick_storage
            /\ block_queue' = <<>>]_vars
    /\ [](/\ Ascending(Flatten([i \in 1..Len(combos) |-> combos[i].blocks])
                       \o block_queue)
          /\ Ascending(Flatten([i \in 1..Len(combos) |-> combos[i].storage])
                       \o tick_storage \o storage_queue))

\* a block was enqueued between the two drains of a tick and is in the
\* Combo of that tick, next to a storage change drained at the first instant
C15_Witness ==
    /\ timer = "idle"
    /\ ticks > 0
    /\ arrived
    /\ Len(Last(combos).storage) >= 1
    /\ Len(Last(combos).blocks) > Len(snap.blocks)

\* C16: FIFO through the aggregator. The blocks sent to the Metadata worker,
\* concatenated over all ticks, are in the order in which the aggregator
\* received them (the blocks of a BatchBlock in sequence order), and so are
\* the storage changes sent to the Database sink.
C16_Fifo ==
    /\ Ascending(Flatten(meta_addr))
    /\ Ascending(Flatten(db_addr))

\* two ticks have sent blocks to the Metadata worker, one of them the
\* blocks of a BatchBlock of two
C16_Witness ==
    /\ Len(meta_addr) >= 2
    /\ Len(Flatten(meta_addr)) >= 3

\* C18: the aggregator sends no empty batch downstream. No message to the
\* Metadata worker is a BatchBlock of zero blocks and no message to the
\* Database sink is a storage batch of zero entries, also after an empty
\* BatchBlock message or an empty tick.
C18_NoEmptyBatch ==
    /\ \A i \in 1..Len(meta_addr) : Len(meta_addr[i]) > 0
    /\ \A i \in 1..Len(db_addr) : Len(db_addr[i]) > 0

\* the aggregator received an empty BatchBlock, and the Combo of the tick
\* after it, with no block and no storage, was handled and nothing was sent
C18_Witness ==
    /\ \E i \in 1..Len(exec) : exec[i].kind = "Batch" /\ exec[i].blocks = <<>>
    /\ \E i \in 1..Len(handled) : handled[i] = <<0, 0>>
    /\ meta_addr = <<>>
    /\ db_addr = <<>>
    /\ agg_state = "running"

\* ---------------------------------- finalized-head source: further properties
\* this step is the lookup of the head next() returned
LookupStep == net_pc = "lookup" /\ net_pc' # "lookup"

\* C13: the lookup of a head whose body the block store lacks hands nothing
\* to the scheduler, logs one warning and leaves the source subscribed and
\* at the top of its loop; the lookup of a head whose body is present hands
\* exactly that block to the scheduler; and the blocks handed over are in
\* head-arrival order, none twice.
C13_MissingBodyNonFatal ==
    /\ [][LookupStep =>
            IF net_head \notin net_backend
            THEN /\ net_handed' = net_handed
                 /\ net_told' = net_told
                 /\ net_log' = Append(net_log, "missing")
                 /\ net_sub' = "open"
                 /\ net_pc' = "poll"
            ELSE net_handed' = Append(net_handed, net_head)]_vars
    /\ [](\A i, j \in 1..Len(net_handed) : i < j => net_handed[i] < net_handed[j])

\* the body of the first head was missing, the source went on and handed
\* over the block of the second head
C13_Witness ==
    /\ net_log = <<"missing">>
    /\ net_handed = <<2>>
    /\ net_told = <<2>>
\* C14: when entry has returned an error (the subscription failed, or the
\* hand-off to the scheduler failed) the rest of the system keeps running,
\* and the source is started again: its subscription is eventually open.
C14_ErrorRestartsSourceOnly ==
    /\ [](net_exit = "err" => ~bastion_stopped)
    /\ (net_exit = "err") ~> (net_sub = "open")
\* this step is a poll of the inbox that takes an unrecognized message
UnknownTaken ==
    /\ net_pc = "poll"
    /\ net_pc' # "poll"
    /\ net_inbox # <<>>
    /\ Head(net_inbox) = "Unknown"

\* C17 as stated: taking an unrecognized message ends the source and the
\* process.
C17_UnknownIsFatal ==
    [][UnknownTaken => (net_pc' = "stopped" /\ bastion_stopped')]_vars

\* C17, amended: an unrecognized message is taken from the inbox, logged as
\* a warning and otherwise ignored: the source stays subscribed, nothing is
\* stopped, and it goes on to await the next head.
C17_UnknownIsLogged ==
    [][UnknownTaken =>
          /\ net_inbox' = Tail(net_inbox)
          /\ net_log' = Append(net_log, "unknown")
          /\ net_pc' = "await_head"
          /\ net_sub' = "open"
          /\ net_exit' = "none"
          /\ ~bastion_stopped']_vars

\* an unrecognized message was logged and the source then took a head from
\* the subscription and is looking up its block
C17_Witness ==
    /\ net_log = <<"unknown">>
    /\ net_sent_heads = 1
    /\ net_pc = "lookup"
    /\ net_head = 1
    /\ ~bastion_stopped
\* ---------------------------------------- deferred storage: further properties
\* this step is a call of entry that returned Ok
ProbeOk ==
    /\ defer_state = "probe"
    /\ defer_state' = "sleep"
    /\ defer_probe'.outcome = "ok"

\* C19: a successful probe partitions the working set exactly. The batch
\* sent holds precisely the records whose block_num the query over
\* [min_bn, max_bn] did not return as missing, the records that remain are
\* precisely those whose block_num it returned, no record is lost or
\* duplicated, and both parts keep the order of the working set.
C19_ExactPartition ==
    [][ProbeOk =>
          LET before == defer_storage
              nums == {before[i].block_num : i \in 1..Len(before)}
              missing == missing_blocks_min_max(db, MinOf(nums), MaxOf(nums))
              ready == defer_probe'.ready
              rest == defer_storage'
          IN /\ \A i \in 1..Len(before) :
                   /\ before[i].block_num \notin missing <=>
                         \E j \in 1..Len(ready) : ready[j] = before[i]
                   /\ before[i].block_num \in missing <=>
                         \E j \in 1..Len(rest) : rest[j] = before[i]
             /\ Len(ready) + Len(rest) = Len(before)
             /\ Ascending(ready)
             /\ Ascending(rest)
             /\ \A j \in 1..Len(ready) : ready[j].block_num \notin missing]_vars

\* a probe split a working set of two: it sent one record and kept the other
C19_Witness ==
    /\ defer_probe.outcome = "ok"
    /\ Len(defer_init) = 2
    /\ Len(defer_probe.ready) = 1
    /\ Len(defer_storage) = 1
    /\ defer_state = "sleep"

\* C20: at every point of a run of the worker, every record of the initial
\* working set has either been sent to the sink, once, or is in the working
\* set, and not both.
C20_SentOnceOrWaiting ==
    \A i \in 1..Len(defer_init) :
        (IF i \in defer_sent THEN 1 ELSE 0) + Occ(i, defer_storage) = 1

\* a probe whose missing-blocks query failed
ProbeErr ==
    /\ defer_state = "probe"
    /\ defer_probe'.outcome = "err"

\* the check that follows the sleep after a failed query
SleepAfterErr ==
    /\ defer_state = "sleep"
    /\ defer_probe.outcome = "err"
    /\ defer_state' # defer_state

\* C21: when the missing-blocks query of a probe fails, the working set is
\* left unchanged and nothing is sent to the sink in that iteration (neither
\* the sent records nor the database change), the error is only logged and
\* the worker goes to its sleep; after the sleep it probes again, it does not
\* stop.
C21_QueryErrorRetries ==
    [][/\ ProbeErr => /\ defer_storage' = defer_storage
                      /\ defer_sent' = defer_sent
                      /\ db' = db
                      /\ defer_state' = "sleep"
       /\ SleepAfterErr => /\ defer_state' = "probe"
                           /\ defer_storage' = defer_storage
                           /\ defer_storage' # <<>>]_vars

\* a failed query at the second probe, after a first probe that sent a record
C21_Witness ==
    /\ defer_state = "sleep"
    /\ defer_probe.outcome = "err"
    /\ defer_sent # {}
    /\ defer_storage # <<>>

\* C22: at the start of every probe the working set is non-empty, so min_bn
\* and max_bn are defined: the worker is started with the records whose block
\* is missing, which are at least one, and probes again only when the loop
\* test finds a record left.
C22_ProbeNonEmpty ==
    defer_state = "probe" => defer_storage # <<>>

\* a second probe, after an iteration that sent a record and kept another
C22_Witness ==
    /\ defer_state = "probe"
    /\ defer_sent # {}
    /\ Len(defer_storage) = 1
    /\ Len(defer_init) = 2

\* ------------------------------ finalized-head source: shutdown and dispatch
\* this step is a poll of the inbox whose next message is the broadcast
ShutdownTaken ==
    /\ net_pc = "poll"
    /\ net_pc' # "poll"
    /\ net_inbox # <<>>
    /\ Head(net_inbox) = "Shutdown"

\* heads the source has taken from the subscription
HeadsTaken == net_sent_heads - Len(net_heads)

\* heads the source skipped because the block store lacked their body
HeadsSkipped == Cardinality({i \in 1..Len(net_log) : net_log[i] = "missing"})

\* C23: the poll at which the Shutdown broadcast is the next message of the
\* inbox takes it, dispatches nothing and ends the source with its
\* subscription dropped; once the source has taken the broadcast it dispatches
\* no further block to the metadata workers; and when it has stopped on the
\* broadcast no head is left in flight: every head it took from the
\* subscription, those taken before the broadcast was observed included, was
\* dispatched or skipped.
C23_ShutdownAfterHead ==
    /\ [][ShutdownTaken => /\ net_pc' = "stopped"
                           /\ net_exit' = "ok"
                           /\ net_sub' = "closed"
                           /\ net_inbox' = Tail(net_inbox)
                           /\ net_told' = net_told
                           /\ net_handed' = net_handed]_vars
    /\ [][net_exit = "ok" => (net_told' = net_told /\ net_handed' = net_handed)]_vars
    /\ [](net_exit = "ok" => /\ net_pc = "stopped"
                             /\ net_head = 0
                             /\ net_told = net_handed
                             /\ HeadsTaken = Len(net_told) + HeadsSkipped)
    /\ [][(LookupStep /\ ShutdownDelivered) =>
             /\ net_pc' = IF net_head \in net_backend /\ ~net_meta_open
                          THEN "stopped" ELSE "poll"
             /\ net_head \in net_backend => net_handed' = Append(net_handed, net_head)
             /\ net_head \notin net_backend => net_log' = Append(net_log, "missing")
             /\ net_inbox' = net_inbox]_vars

\* the broadcast was delivered while the block of a head was being looked
\* up; that block was dispatched, and the source then stopped on the broadcast
C23_Witness ==
    /\ net_shut_at = "lookup"
    /\ net_exit = "ok"
    /\ net_told = <<1>>
    /\ net_heads # <<>>
====
